---- MODULE Spec2Model ----
(***************************************************************************)
(* FireCrawl News Monitor: the scrape API route (headline classifier,      *)
(* company extraction, markdown headline parser, fallback chain) and the   *)
(* dashboard's processAnalytics aggregation.                               *)
(*                                                                         *)
(* Strings are TLA+ strings; a character is a string of length 1.          *)
(* JavaScript values that may be undefined/null/string are records         *)
(* [type, val] (see Undefined, Null, Str).                                 *)
(***************************************************************************)
EXTENDS Integers, Sequences, FiniteSets, TLC

VARIABLES
    \* classifier (categorizeHeadline, extractCompanyFromHeadline)
    headline,     \* classifier input: the headline text
    category,     \* result of categorizeHeadline (NotRun before the call)
    company,      \* result of extractCompanyFromHeadline (NotRun before the call)
    \* markdown parser (parseHeadlinesFromMarkdown)
    markdown,     \* parser input: the markdown text
    parsed,       \* the returned Article[]
    parseDone,    \* TRUE once parseHeadlinesFromMarkdown has returned
    \* dashboard aggregation (processAnalytics)
    data,               \* the article rows passed to processAnalytics
    locale,             \* the default locale of the runtime the page runs in
    topicDistribution,  \* React state set at dashboard.tsx:93
    articlesByDate,     \* React state set at dashboard.tsx:107
    wordFrequency,      \* React state set at dashboard.tsx:126
    recentArticles,     \* React state set at dashboard.tsx:129
    analyticsDone,      \* TRUE once processAnalytics has returned
    \* scrape API route (handler)
    reqMethod,       \* req.method
    apiKeySet,       \* whether process.env.FIRECRAWL_API_KEY is set
    pc,              \* where the handler is: start, awaitExtract, awaitScrape, done
    extractCalls,    \* number of POSTs to /v1/extract made
    scrapeCalls,     \* number of POSTs to /v1/scrape made
    extractOutcome,  \* none, threw or returned
    scrapeOutcome,   \* none, threw or returned
    articles,        \* the handler's local `articles`
    extractResponse, \* the body of the extract response once received (NoBody before)
    response,        \* what the handler sent: [status, success, articles, error]
    \* monitor page (NewsMonitor, index.tsx:6-28)
    monitorArticles,   \* React state `articles`
    monitorLoading,    \* React state `loading`
    monitorError,      \* React state `error`
    monitorInFlight,   \* POSTs to /api/scrape sent and not yet settled
    monitorFetches,    \* fetchNews calls started so far
    monitorLastOk,     \* history: the articles of the latest successful fetch
    monitorLastFailed, \* history: whether the latest settled fetch failed
    \* dashboard page (Dashboard, dashboard.tsx:35-76)
    dashMounted,       \* whether the mount effect has run
    dashArticles,      \* React state `articles`
    dashLoading,       \* React state `loading`
    dashError,         \* React state `error`
    dashInFlight,      \* storage reads started and not yet settled
    dashReads,         \* fetchDashboardData calls started so far
    dashTrigger,       \* history: what started the latest read
    dashLastRead       \* history: how the latest settled read ended

classifyVars == <<headline, category, company>>
markdownVars == <<markdown, parsed, parseDone>>
analyticsVars ==
    <<data, locale, topicDistribution, articlesByDate, wordFrequency, recentArticles,
      analyticsDone>>
handlerVars ==
    <<reqMethod, apiKeySet, pc, extractCalls, scrapeCalls, extractOutcome,
      scrapeOutcome, articles, extractResponse, response>>
monitorVars ==
    <<monitorArticles, monitorLoading, monitorError, monitorInFlight,
      monitorFetches, monitorLastOk, monitorLastFailed>>
dashboardVars ==
    <<dashMounted, dashArticles, dashLoading, dashError, dashInFlight, dashReads,
      dashTrigger, dashLastRead>>
pageVars == <<monitorVars, dashboardVars>>
vars == <<classifyVars, markdownVars, analyticsVars, handlerVars, pageVars>>

\* what each component leaves alone
notClassify  == <<markdownVars, analyticsVars, handlerVars, pageVars>>
notMarkdown  == <<classifyVars, analyticsVars, handlerVars, pageVars>>
notAnalytics == <<classifyVars, markdownVars, handlerVars, pageVars>>
notHandler   == <<classifyVars, markdownVars, analyticsVars, pageVars>>
notPages     == <<classifyVars, markdownVars, handlerVars>>

----------------------------------------------------------------------------
(* Bounds *)

\* Generated headlines are concatenations of at most MaxFrags fragments.
MaxFrags == 2

----------------------------------------------------------------------------
(* JavaScript values *)

Undefined == [type |-> "undefined", val |-> ""]
Null      == [type |-> "null", val |-> ""]
Str(s)    == [type |-> "string", val |-> s]
NotRun    == [type |-> "notrun", val |-> ""]

\* JavaScript truthiness of an undefined/null/string value.
Truthy(v) == v.type = "string" /\ v.val # ""

\* a || b
OrElse(a, b) == IF Truthy(a) THEN a ELSE b

----------------------------------------------------------------------------
(* String primitives: String.prototype.toLowerCase / includes *)

LowerOf ==
    [A |-> "a", B |-> "b", C |-> "c", D |-> "d", E |-> "e", F |-> "f",
     G |-> "g", H |-> "h", I |-> "i", J |-> "j", K |-> "k", L |-> "l",
     M |-> "m", N |-> "n", O |-> "o", P |-> "p", Q |-> "q", R |-> "r",
     S |-> "s", T |-> "t", U |-> "u", V |-> "v", W |-> "w", X |-> "x",
     Y |-> "y", Z |-> "z"]

CharAt(s, i) == SubSeq(s, i, i)

LowerChar(c) == IF c \in DOMAIN LowerOf THEN LowerOf[c] ELSE c

\* the characters lo..hi of s, each lowercased (halving keeps the nesting shallow)
RECURSIVE LowerRange(_, _, _)
LowerRange(s, lo, hi) ==
    IF lo > hi THEN ""
    ELSE IF lo = hi THEN LowerChar(CharAt(s, lo))
    ELSE LET mid == (lo + hi) \div 2 IN
         LowerRange(s, lo, mid) \o LowerRange(s, mid + 1, hi)

toLowerCase(s) == LowerRange(s, 1, Len(s))

\* s.includes(k): k occurs in s as a contiguous substring.
includes(s, k) ==
    \E i \in 0..(Len(s) - Len(k)) : SubSeq(s, i + 1, i + Len(k)) = k

\* some element of the sequence ks is a substring of s (a chain of ||)
IncludesAny(s, ks) == \E j \in 1..Len(ks) : includes(s, ks[j])

----------------------------------------------------------------------------
(* Headline classifier *)

Categories == {"AI", "Funding", "Product", "Regulation", "Other"}

AIKeywords      == <<"ai", "artificial intelligence", "machine learning", "chatgpt", "openai">>
FundingKeywords == <<"funding", "investment", "raises", "series", "venture">>
ProductKeywords == <<"product", "launch", "release", "update", "feature">>
RegulationKeywords == <<"regulation", "policy", "government", "legal", "lawsuit">>

\* A plausible slip: the Funding test placed before the AI test.
categorizeHeadlineFundingFirst(h) ==
    LET lower == toLowerCase(h) IN
    IF IncludesAny(lower, FundingKeywords) THEN "Funding"
    ELSE IF IncludesAny(lower, AIKeywords) THEN "AI"
    ELSE IF IncludesAny(lower, ProductKeywords) THEN "Product"
    ELSE IF IncludesAny(lower, RegulationKeywords) THEN "Regulation"
    ELSE "Other"

\* A plausible slip: the Regulation branch missing.
categorizeHeadlineNoRegulation(h) ==
    LET lower == toLowerCase(h) IN
    IF IncludesAny(lower, AIKeywords) THEN "AI"
    ELSE IF IncludesAny(lower, FundingKeywords) THEN "Funding"
    ELSE IF IncludesAny(lower, ProductKeywords) THEN "Product"
    ELSE "Other"

categorizeHeadline(h) ==
    LET lower == toLowerCase(h) IN
    IF IncludesAny(lower, AIKeywords) THEN "AI"
    ELSE IF IncludesAny(lower, FundingKeywords) THEN "Funding"
    ELSE IF IncludesAny(lower, ProductKeywords) THEN "Product"
    ELSE IF IncludesAny(lower, RegulationKeywords) THEN "Regulation"
    ELSE "Other"

companies ==
    <<"Microsoft", "Google", "Apple", "Amazon", "Meta", "Tesla", "OpenAI",
      "Anthropic", "SpaceX", "Uber", "Airbnb", "Netflix", "X", "TikTok",
      "ByteDance">>

KnownCompanies == {companies[i] : i \in 1..Len(companies)}

\* the for..of loop from list position i on
RECURSIVE CompanyFrom(_, _)
CompanyFrom(h, i) ==
    IF i > Len(companies) THEN Undefined
    ELSE IF includes(toLowerCase(h), toLowerCase(companies[i]))
         THEN Str(companies[i])
         ELSE CompanyFrom(h, i + 1)

\* A plausible slip: the name matched without case folding the headline.
extractCompanyCaseSensitive(h) ==
    LET hit == {i \in 1..Len(companies) : includes(h, companies[i])} IN
    IF hit = {} THEN Undefined
    ELSE Str(companies[CHOOSE i \in hit : \A j \in hit : i <= j])

\* A plausible slip: the name occurring earliest in the headline wins.
extractCompanyEarliestInText(h) ==
    LET lower == toLowerCase(h)
        At(i) == {p \in 0..(Len(lower) - Len(companies[i])) :
                    SubSeq(lower, p + 1, p + Len(companies[i])) = toLowerCase(companies[i])}
        hit == {i \in 1..Len(companies) : At(i) # {}}
        First(i) == CHOOSE p \in At(i) : \A q \in At(i) : p <= q
    IN  IF hit = {} THEN Undefined
        ELSE Str(companies[CHOOSE i \in hit :
                   \A j \in hit : First(i) < First(j) \/ (First(i) = First(j) /\ i <= j)])

extractCompanyFromHeadline(h) == CompanyFrom(h, 1)

----------------------------------------------------------------------------
(* Classifier inputs *)

Fragments ==
    <<"AI", "raises", "Series", "launch", "feature", "lawsuit", "policy",
      "Apple", "Google", "OpenAI", "SpaceX", "TESLA", " sues ", " ", "fix">>

RECURSIVE Concat(_)
Concat(ss) == IF ss = <<>> THEN "" ELSE Head(ss) \o Concat(Tail(ss))

SeqsUpTo(S, n) == UNION {[1..k -> S] : k \in 0..n}

GeneratedHeadlines ==
    {Concat([i \in 1..Len(ix) |-> Fragments[ix[i]]]) :
        ix \in SeqsUpTo(1..Len(Fragments), MaxFrags)}

MockHeadlines ==
    {"OpenAI announces new GPT-5 model with improved reasoning capabilities",
     "Series A funding round raises $50M for fintech startup Stripe competitor",
     "Apple releases iOS 18 with enhanced privacy features",
     "EU proposes new AI regulations for tech companies",
     "Tesla CEO discusses future of electric vehicle market"}

ExampleHeadlines ==
    {"Apple sues Google", "Google sues Apple", "Startup raises Series B",
     "New policy on product launch", "Government lawsuit over venture funding",
     "Quarterly results beat estimates", "Next big thing"}

SeqRange(s) == {s[i] : i \in 1..Len(s)}

Headlines ==
    GeneratedHeadlines \cup MockHeadlines \cup ExampleHeadlines
        \cup SeqRange(AIKeywords) \cup SeqRange(FundingKeywords)
        \cup SeqRange(ProductKeywords) \cup SeqRange(RegulationKeywords)
        \cup KnownCompanies

----------------------------------------------------------------------------
(* Specification SpecClassify: the two pure classifier functions applied    *)
(* to a headline.                                                          *)

IdleClassify ==
    /\ headline = ""
    /\ category = NotRun
    /\ company = NotRun

IdleMarkdown ==
    /\ markdown = ""
    /\ parsed = <<>>
    /\ parseDone = FALSE

IdleAnalytics ==
    /\ data = <<>>
    /\ locale = "en-US"
    /\ topicDistribution = <<>>
    /\ articlesByDate = <<>>
    /\ wordFrequency = <<>>
    /\ recentArticles = <<>>
    /\ analyticsDone = FALSE

NoResponse == [status |-> 0, success |-> FALSE, articles |-> <<>>, error |-> Undefined]

\* no extract response has been received
NoBody == [kind |-> "none", articles |-> <<>>]

IdleHandler ==
    /\ reqMethod = "POST"
    /\ apiKeySet = TRUE
    /\ pc = "idle"
    /\ extractCalls = 0
    /\ scrapeCalls = 0
    /\ extractOutcome = "none"
    /\ scrapeOutcome = "none"
    /\ articles = <<>>
    /\ extractResponse = NoBody
    /\ response = NoResponse

\* the monitor page as constructed: index.tsx:7-9
IdleMonitor ==
    /\ monitorArticles = <<>>
    /\ monitorLoading = FALSE
    /\ monitorError = Null
    /\ monitorInFlight = 0
    /\ monitorFetches = 0
    /\ monitorLastOk = <<>>
    /\ monitorLastFailed = FALSE

\* the dashboard as constructed, before its mount effect: dashboard.tsx:36-43
IdleDashboard ==
    /\ dashMounted = FALSE
    /\ dashArticles = <<>>
    /\ dashLoading = TRUE
    /\ dashError = Null
    /\ dashInFlight = 0
    /\ dashReads = 0
    /\ dashTrigger = "none"
    /\ dashLastRead = "none"

IdlePages == IdleMonitor /\ IdleDashboard

InitClassify ==
    /\ headline \in Headlines
    /\ category = NotRun
    /\ company = NotRun
    /\ IdleMarkdown
    /\ IdleAnalytics
    /\ IdleHandler
    /\ IdlePages

CategorizeHeadline ==
    /\ category = NotRun
    /\ category' = Str(categorizeHeadline(headline))
    /\ UNCHANGED <<headline, company>>
    /\ UNCHANGED notClassify

ExtractCompanyFromHeadline ==
    /\ company = NotRun
    /\ company' = extractCompanyFromHeadline(headline)
    /\ UNCHANGED <<headline, category>>
    /\ UNCHANGED notClassify

NextClassify == CategorizeHeadline \/ ExtractCompanyFromHeadline

SpecClassify == InitClassify /\ [][NextClassify]_vars

----------------------------------------------------------------------------
(* Claims about the classifier (under SpecClassify) *)

KeywordGroups == <<AIKeywords, FundingKeywords, ProductKeywords, RegulationKeywords>>
GroupCategory == <<"AI", "Funding", "Product", "Regulation">>

\* the keyword groups of which some keyword occurs in the lowercased headline
MatchingGroups(h) ==
    {g \in 1..4 : \E k \in SeqRange(KeywordGroups[g]) : includes(toLowerCase(h), k)}

\* the list positions of the company names occurring in the headline, ignoring case
MatchingCompanies(h) ==
    {i \in 1..Len(companies) : includes(toLowerCase(h), toLowerCase(companies[i]))}

MinOf(S) == CHOOSE x \in S : \A y \in S : x <= y

\* C1: a headline containing keywords of two or more groups gets the category
\* of the matching group that is first in the order AI, Funding, Product,
\* Regulation; never a later group's category, never Other.
C1_FirstMatchingGroupWins ==
    (category # NotRun /\ Cardinality(MatchingGroups(headline)) >= 2)
        => category = Str(GroupCategory[MinOf(MatchingGroups(headline))])

\* C1 witness: a classified headline matching Funding and Regulation but not AI.
C1_Witness ==
    /\ category = Str("Funding")
    /\ MatchingGroups(headline) = {2, 4}

\* C2: a headline containing keywords of exactly one group gets that group's
\* category; a headline containing no keyword of any group gets Other.
C2_SingleGroupOrOther ==
    category # NotRun =>
        LET m == MatchingGroups(headline) IN
        /\ Cardinality(m) = 1 => category = Str(GroupCategory[MinOf(m)])
        /\ m = {} => category = Str("Other")

\* C2 witness: a classified headline matching the Regulation group alone.
C2_Witness ==
    /\ category = Str("Regulation")
    /\ MatchingGroups(headline) = {4}

\* C2 witness (second half): a classified headline matching no group.
C2_WitnessOther ==
    /\ category = Str("Other")
    /\ MatchingGroups(headline) = {}
    /\ headline # ""

\* C3: extractCompanyFromHeadline returns undefined when no listed name is a
\* case-insensitive substring of the headline, and otherwise the matching
\* name earliest in the list, wherever the names occur in the headline.
C3_FirstListedCompany ==
    company # NotRun =>
        LET m == MatchingCompanies(headline) IN
        IF m = {} THEN company = Undefined
        ELSE company = Str(companies[MinOf(m)])

\* C3 witness: two listed names occur, and the one returned is not the one
\* that occurs first in the text (Google after Apple in "Apple sues Google").
C3_Witness ==
    /\ company = Str("Google")
    /\ MatchingCompanies(headline) = {2, 3}
    /\ SubSeq(headline, 1, 5) = "Apple"

\* C3 witness (case folding): a name matched only through case folding.
C3_WitnessCase ==
    /\ company = Str("Tesla")
    /\ ~includes(headline, "Tesla")

\* C3 witness (no match): a non-empty headline without any listed name.
C3_WitnessNone ==
    /\ company = Undefined
    /\ headline # ""

\* C4 (as claimed): for "Apple sues Google" the result is "Apple".
C4_AppleSuesGoogleIsApple ==
    (headline = "Apple sues Google" /\ company # NotRun) => company = Str("Apple")

\* C4 (amended): for "Apple sues Google" the result is "Google", because
\* Google (position 2) precedes Apple (position 3) in the company list.
C4_AppleSuesGoogleIsGoogle ==
    (headline = "Apple sues Google" /\ company # NotRun)
        => /\ company = Str("Google")
           /\ \E i, j \in 1..Len(companies) :
                i < j /\ companies[i] = "Google" /\ companies[j] = "Apple"

\* C4 witness: the headline "Apple sues Google" has been processed.
C4_Witness ==
    /\ headline = "Apple sues Google"
    /\ company = Str("Google")

----------------------------------------------------------------------------
(* Markdown headline parser: parseHeadlinesFromMarkdown *)

\* Article objects: every field is a JavaScript value.
Article(h, co, cat) == [headline |-> h, company |-> co, category |-> cat]

\* markdown.split('\n')
\* s.split(ch), the pieces from position i on: up to the next ch, then the rest
RECURSIVE SplitOn(_, _, _)
SplitOn(s, ch, i) ==
    LET at == {p \in i..Len(s) : CharAt(s, p) = ch} IN
    IF at = {} THEN <<SubSeq(s, i, Len(s))>>
    ELSE LET n == CHOOSE p \in at : \A q \in at : p <= q IN
         <<SubSeq(s, i, n - 1)>> \o SplitOn(s, ch, n + 1)

SplitLines(s) == SplitOn(s, "\n", 1)

\* \s of the regular expression, over the characters the inputs use
IsSpace(c) == c \in {" ", "\t", "\r", "\f"}

\* . of the regular expression: any character but a line terminator
IsDot(c) == c \notin {"\n", "\r"}

\* length of the maximal run of '#' from position i (the greedy #{1,4} can
\* only succeed on the whole run, since whitespace must follow it)
HashRun(s, i) ==
    CHOOSE n \in 0..(Len(s) + 1 - i) :
        /\ \A p \in i..(i + n - 1) : CharAt(s, p) = "#"
        /\ (i + n > Len(s) \/ CharAt(s, i + n) # "#")

\* length of the maximal run of whitespace from position i (greedy \s+)
SpaceRun(s, i) ==
    IF i > Len(s) THEN 0
    ELSE CHOOSE n \in 0..(Len(s) + 1 - i) :
        /\ \A p \in i..(i + n - 1) : IsSpace(CharAt(s, p))
        /\ (i + n > Len(s) \/ ~IsSpace(CharAt(s, i + n)))

\* (.+?)\] with the label starting at position i: the lazy quantifier takes
\* one character and then stops at the first ']'; a line terminator before it
\* makes the match fail.  The position of that ']', or 0 without a match.
LazyLabelEnd(s, i) ==
    LET close == {e \in (i + 1)..Len(s) : CharAt(s, e) = "]"} IN
    IF close = {} THEN 0
    ELSE LET e == CHOOSE x \in close : \A y \in close : x <= y IN
         IF \A p \in i..(e - 1) : IsDot(CharAt(s, p)) THEN e ELSE 0

NoMatch == [matched |-> FALSE, label |-> ""]

\* line.match(/^#{1,4}\s+\[(.+?)\]/): whether it matches, and capture group 1
MatchHeadline(line) ==
    LET h == HashRun(line, 1)
        w == SpaceRun(line, h + 1)
        b == h + w + 1
        e == LazyLabelEnd(line, b + 1)
    IN  IF h >= 1 /\ h <= 4 /\ w >= 1 /\ b <= Len(line) /\ CharAt(line, b) = "["
           /\ e > 0
        THEN [matched |-> TRUE, label |-> SubSeq(line, b + 1, e - 1)]
        ELSE NoMatch

MakeArticle(label) ==
    Article(Str(label), extractCompanyFromHeadline(label),
            Str(categorizeHeadline(label)))

\* the for..of loop over the lines from line i on, with the articles so far
RECURSIVE ParseFrom(_, _, _)
ParseFrom(lines, i, acc) ==
    IF i > Len(lines) THEN acc
    ELSE LET m == MatchHeadline(lines[i]) IN
         IF m.matched
         THEN LET acc2 == Append(acc, MakeArticle(m.label)) IN
              IF Len(acc2) >= 5 THEN acc2 ELSE ParseFrom(lines, i + 1, acc2)
         ELSE ParseFrom(lines, i + 1, acc)

\* A plausible slip: the early break missing, so every matching line is kept.
RECURSIVE ParseAllFrom(_, _, _)
ParseAllFrom(lines, i, acc) ==
    IF i > Len(lines) THEN acc
    ELSE LET m == MatchHeadline(lines[i]) IN
         IF m.matched
         THEN ParseAllFrom(lines, i + 1, Append(acc, MakeArticle(m.label)))
         ELSE ParseAllFrom(lines, i + 1, acc)

parseHeadlinesNoBreak(md) == ParseAllFrom(SplitLines(md), 1, <<>>)

parseHeadlinesFromMarkdown(md) == ParseFrom(SplitLines(md), 1, <<>>)

----------------------------------------------------------------------------
(* Markdown inputs *)

\* Generated markdown texts have at most MaxLines lines.
MaxLines == 6

LineVocabulary ==
    <<"# [AI launch](u)", "### [Apple sues Google]", "##### [Tesla]">>

RECURSIVE JoinLines(_)
JoinLines(ls) ==
    IF ls = <<>> THEN ""
    ELSE IF Len(ls) = 1 THEN ls[1]
    ELSE ls[1] \o "\n" \o JoinLines(Tail(ls))

GeneratedMarkdowns ==
    {JoinLines([i \in 1..Len(ix) |-> LineVocabulary[ix[i]]]) :
        ix \in SeqsUpTo(1..Len(LineVocabulary), MaxLines)}

SevenHeadlines ==
    JoinLines(<<"# [one]", "## [two](u)", "intro", "### [three]", "#### [four]",
                "# [five raises]", "##### [not this]", "## [six]", "# [seven]">>)

ExampleMarkdowns ==
    {"", SevenHeadlines, "plain text", "plain text\n# [Meta]\nmore text",
     "#[Meta]", " # [Uber]", "## []", "## [] x]", "#\t [Uber raises](u)",
     "# [a\rb]", "# [unterminated", "#### [X](u) [Y]", "# [Meta]\r\n## [Tesla]\r",
     "#\n# [Netflix update]\n\n[Amazon]\n#  x [Google]"}

Markdowns == GeneratedMarkdowns \cup ExampleMarkdowns

----------------------------------------------------------------------------
(* Specification SpecMarkdown: parseHeadlinesFromMarkdown applied to a text *)

InitMarkdown ==
    /\ markdown \in Markdowns
    /\ parsed = <<>>
    /\ parseDone = FALSE
    /\ IdleClassify
    /\ IdleAnalytics
    /\ IdleHandler
    /\ IdlePages

ParseHeadlinesFromMarkdown ==
    /\ ~parseDone
    /\ parsed' = parseHeadlinesFromMarkdown(markdown)
    /\ parseDone' = TRUE
    /\ UNCHANGED markdown
    /\ UNCHANGED notMarkdown

NextMarkdown == ParseHeadlinesFromMarkdown

SpecMarkdown == InitMarkdown /\ [][NextMarkdown]_vars

----------------------------------------------------------------------------
(* Claims about the markdown parser (under SpecMarkdown) *)

\* A line qualifies when it consists of 1 to 4 '#', then at least one
\* whitespace character, then '[', a label of at least one character without
\* a line terminator, and ']'.  LabelsOf is the set of (label start, label
\* end) position pairs for which the line has that shape.
LabelsOf(line) ==
    {se \in (1..Len(line)) \X (1..Len(line)) :
        /\ se[1] <= se[2]
        /\ se[2] < Len(line) /\ CharAt(line, se[2] + 1) = "]"
        /\ \A p \in se[1]..se[2] : IsDot(CharAt(line, p))
        /\ se[1] >= 4 /\ CharAt(line, se[1] - 1) = "["
        /\ \E h \in 1..4 :
              /\ h < se[1] - 2
              /\ \A p \in 1..h : CharAt(line, p) = "#"
              /\ \A p \in (h + 1)..(se[1] - 2) : IsSpace(CharAt(line, p))}

Qualifies(line) == LabelsOf(line) # {}

\* the shortest label (the lazy quantifier) of a qualifying line
ShortestLabel(line) ==
    LET se == CHOOSE x \in LabelsOf(line) : \A y \in LabelsOf(line) : x[2] <= y[2]
    IN  SubSeq(line, se[1], se[2])

QualifyingLines(md) == SelectSeq(SplitLines(md), Qualifies)

MinInt(a, b) == IF a <= b THEN a ELSE b

\* C5: with n qualifying lines the parser returns exactly min(5, n) articles,
\* the first min(5, n) qualifying lines in source order; lines that do not
\* qualify produce no article.
C5_FirstFiveQualifyingLines ==
    parseDone =>
        LET q == QualifyingLines(markdown) IN
        /\ Len(parsed) = MinInt(5, Len(q))
        /\ \A i \in 1..Len(parsed) :
              parsed[i].headline = Str(ShortestLabel(q[i]))

\* C5 witness: seven qualifying lines among non-qualifying ones gave five articles.
C5_Witness ==
    /\ parseDone
    /\ Len(QualifyingLines(markdown)) = 7
    /\ Len(SplitLines(markdown)) > 7
    /\ Len(parsed) = 5
    /\ parsed[5].headline = Str("five raises")

\* C5 witness (fewer than five): a text with non-qualifying lines only.
C5_WitnessNone ==
    /\ parseDone
    /\ markdown # ""
    /\ parsed = <<>>

----------------------------------------------------------------------------
(* IEEE 754 double arithmetic, as far as Math.round((count / total) * 100)  *)
(* needs it.  A positive double is [man, exp]: man is its 53-bit            *)
(* significand, most significant bit first (man[1] = 1), and its value is   *)
(* man * 2^exp.                                                             *)

SigBits == 53

\* 2^n mod t, by repeated squaring
RECURSIVE Pow2Mod(_, _)
Pow2Mod(n, t) ==
    IF n = 0 THEN 1 % t
    ELSE LET h == Pow2Mod(n \div 2, t)
             sq == (h * h) % t
         IN  IF n % 2 = 0 THEN sq ELSE (2 * sq) % t

\* value of a bit sequence, most significant bit first
RECURSIVE BitsToInt(_)
BitsToInt(bits) ==
    IF bits = <<>> THEN 0
    ELSE 2 * BitsToInt(SubSeq(bits, 1, Len(bits) - 1)) + bits[Len(bits)]

\* the w-bit representation of n
IntToBits(n, w) == [k \in 1..w |-> (n \div (2 ^ (w - k))) % 2]

\* significand + 1 (rounding up), renormalised when it carries out
IncDouble(man, exp) ==
    LET zeros == {k \in 1..Len(man) : man[k] = 0} IN
    IF zeros = {}
    THEN [man |-> [k \in 1..Len(man) |-> IF k = 1 THEN 1 ELSE 0], exp |-> exp + 1]
    ELSE LET z == CHOOSE k \in zeros : \A j \in zeros : j <= k IN
         [man |-> [k \in 1..Len(man) |-> IF k < z THEN man[k] ELSE IF k = z THEN 1 ELSE 0],
          exp |-> exp]

\* c / t for integers 1 <= c <= t, rounded to nearest, ties to even
DivDouble(c, t) ==
    LET s == CHOOSE n \in 0..30 : t <= c * (2 ^ n) /\ c * (2 ^ n) < 2 * t
        \* remainder of the long division after j quotient bits
        Rem(j) == (c * Pow2Mod(s + j - 1, t)) % t
        man == [k \in 1..SigBits |->
                  IF k = 1 THEN 1 ELSE IF 2 * Rem(k - 1) >= t THEN 1 ELSE 0]
        r == Rem(SigBits)
        up == 2 * r > t \/ (2 * r = t /\ man[SigBits] = 1)
        exp == 0 - (SigBits - 1) - s
    IN  IF up THEN IncDouble(man, exp) ELSE [man |-> man, exp |-> exp]

\* x * 100, rounded to nearest, ties to even.  The exact product is formed on
\* three limbs of the significand (17, 18 and 18 bits) and has 59 or 60 bits.
MulDouble100(x) ==
    LET a == BitsToInt(SubSeq(x.man, 1, 17))
        b == BitsToInt(SubSeq(x.man, 18, 35))
        c == BitsToInt(SubSeq(x.man, 36, 53))
        c2 == c * 100
        b2 == b * 100 + c2 \div (2 ^ 18)
        a2 == a * 100 + b2 \div (2 ^ 18)
        prod == IntToBits(a2, 24) \o IntToBits(b2 % (2 ^ 18), 18)
                    \o IntToBits(c2 % (2 ^ 18), 18)
        lead == IF prod[1] = 1 THEN 1 ELSE 2
        kept == SubSeq(prod, lead, lead + SigBits - 1)
        guard == prod[lead + SigBits]
        sticky == \E k \in (lead + SigBits + 1)..Len(prod) : prod[k] = 1
        exp == x.exp + (Len(prod) - (lead + SigBits - 1))
        up == guard = 1 /\ (sticky \/ kept[SigBits] = 1)
    IN  IF up THEN IncDouble(kept, exp) ELSE [man |-> kept, exp |-> exp]

\* Math.round(x) = floor(x + 0.5), for a positive double below 2^31
MathRound(x) ==
    LET n == SigBits + x.exp   \* number of bits of the integer part
        intPart == IF n >= 1 THEN BitsToInt(SubSeq(x.man, 1, n)) ELSE 0
        half == IF n >= 0 /\ n < SigBits THEN x.man[n + 1] ELSE 0
    IN  intPart + half

\* A plausible slip: Math.floor in place of Math.round.
PercentageFloor(count, total) ==
    LET x == MulDouble100(DivDouble(count, total))
        n == SigBits + x.exp
    IN  IF n >= 1 THEN BitsToInt(SubSeq(x.man, 1, n)) ELSE 0

\* Math.round((count / total) * 100)
Percentage(count, total) == MathRound(MulDouble100(DivDouble(count, total)))

----------------------------------------------------------------------------
(* JavaScript objects used as string-keyed counters.  An object is the      *)
(* sequence of its own properties [key, count] in insertion order; the     *)
(* names it inherits from Object.prototype are InheritedNames, ProtoName.   *)

Digits == "0123456789"

IsDigit(c) == \E i \in 1..10 : CharAt(Digits, i) = c

DigitVal(c) == (CHOOSE i \in 1..10 : CharAt(Digits, i) = c) - 1

AllDigits(k) == Len(k) > 0 /\ \A i \in 1..Len(k) : IsDigit(CharAt(k, i))

\* a < b for strings of digits of the same length
DigitsLess(a, b) ==
    \E i \in 1..Len(a) :
        /\ DigitVal(CharAt(a, i)) < DigitVal(CharAt(b, i))
        /\ \A j \in 1..(i - 1) : CharAt(a, j) = CharAt(b, j)

\* numeric a < b for canonical numeric strings
NumericLess(a, b) == Len(a) < Len(b) \/ (Len(a) = Len(b) /\ DigitsLess(a, b))

\* an array index: a canonical numeric string below 2^32 - 1.  Such keys are
\* enumerated first, in ascending numeric order.
IsArrayIndex(k) ==
    /\ AllDigits(k)
    /\ (Len(k) = 1 \/ CharAt(k, 1) # "0")
    /\ NumericLess(k, "4294967295")

\* The names every object literal inherits from Object.prototype with a
\* truthy value (a function).
InheritedNames ==
    {"constructor", "toString", "toLocaleString", "valueOf", "hasOwnProperty",
     "isPrototypeOf", "propertyIsEnumerable", "__defineGetter__",
     "__defineSetter__", "__lookupGetter__", "__lookupSetter__"}

\* the inherited accessor: reading it gives Object.prototype, assigning a
\* value that is no object does nothing
ProtoName == "__proto__"

\* A count takes a number in the code's normal course.  Two more values can
\* arise and are written as negative numbers here:
\*   StringValue  a string: (f || 0) + 1 for an inherited function f is the
\*                text of f followed by "1", and each later + 1 appends "1"
\*   NaN          the number NaN
StringValue == 0 - 1

NaN == 0 - 2

\* acc[key] = (acc[key] || 0) + 1
Incr(acc, key) ==
    IF key = ProtoName THEN acc
    ELSE IF \E i \in 1..Len(acc) : acc[i].key = key
    THEN [i \in 1..Len(acc) |->
            IF acc[i].key = key
            THEN [key |-> key,
                  count |-> IF acc[i].count = StringValue THEN StringValue
                            ELSE acc[i].count + 1]
            ELSE acc[i]]
    ELSE Append(acc, [key |-> key,
                      count |-> IF key \in InheritedNames THEN StringValue ELSE 1])

\* keys.reduce((acc, key) => { acc[key] = (acc[key] || 0) + 1; return acc }, {})
RECURSIVE CountKeys(_, _, _)
CountKeys(keys, i, acc) ==
    IF i > Len(keys) THEN acc ELSE CountKeys(keys, i + 1, Incr(acc, keys[i]))

\* Array.prototype.sort with the comparator (a, b) => key(a) - key(b), where
\* keys[i] is the key of xs[i].  The sort is stable: an element lands after
\* every element with a smaller key and after every earlier element with the
\* same key.
StableSortByKey(xs, keys) ==
    LET Pos(i) ==
            1 + Cardinality({j \in 1..Len(xs) : keys[j] < keys[i]})
              + Cardinality({j \in 1..(i - 1) : keys[j] = keys[i]})
    IN  [r \in 1..Len(xs) |-> xs[CHOOSE i \in 1..Len(xs) : Pos(i) = r]]

\* the rearrangements of a sequence
Rearrangements(xs) ==
    {[i \in 1..Len(xs) |-> xs[p[i]]] :
        p \in {q \in [1..Len(xs) -> 1..Len(xs)] :
                  \A i, j \in 1..Len(xs) : q[i] = q[j] => i = j}}

\* Array.prototype.sort with the comparator (a, b) => key(a) - key(b) when
\* the key of some elements is NaN (nan[i] tells whether key(xs[i]) is NaN).
\* A comparison that gives NaN counts as 0.  When every comparison gives 0
\* the order is kept; when the comparator is inconsistent (an element with a
\* NaN key equals two elements that differ) the order is
\* implementation-defined: any rearrangement.
SortOutcomes(xs, keys, nan) ==
    LET n == Len(xs)
        Equal(i, j) == nan[i] \/ nan[j] \/ keys[i] = keys[j]
    IN  IF \A i \in 1..n : ~nan[i] THEN {StableSortByKey(xs, keys)}
        ELSE IF \A i, j \in 1..n : Equal(i, j) THEN {xs}
        ELSE Rearrangements(xs)

\* Object.entries(obj): array-index keys ascending, then the other keys in
\* insertion order
ObjectEntries(obj) ==
    LET Rank(i) ==
            IF IsArrayIndex(obj[i].key)
            THEN Cardinality({j \in 1..Len(obj) :
                                /\ IsArrayIndex(obj[j].key)
                                /\ NumericLess(obj[j].key, obj[i].key)})
            ELSE Len(obj)
    IN  StableSortByKey(obj, [i \in 1..Len(obj) |-> Rank(i)])

----------------------------------------------------------------------------
(* Dashboard aggregation: processAnalytics *)

\* An article row: [title, topic, published_date]; published_date is the
\* local calendar day [y, m, d] of the timestamp.
NewsArticle(title, topic, y, m, d) ==
    [title |-> title, topic |-> topic, published_date |-> [y |-> y, m |-> m, d |-> d]]

topicColors ==
    [AI |-> "#8B5CF6", Funding |-> "#10B981", Product |-> "#F59E0B",
     Regulation |-> "#EF4444", Other |-> "#6B7280"]

\* what topicColors[name] is for a name inherited from Object.prototype: a
\* function or object, no colour string
InheritedMember == "[member of Object.prototype]"

\* topicColors[topic] || topicColors.Other
TopicColor(topic) ==
    IF topic \in DOMAIN topicColors THEN topicColors[topic]
    ELSE IF topic \in InheritedNames \cup {ProtoName} THEN InheritedMember
    ELSE topicColors.Other

\* A plausible slip: one entry per known topic, present or not.
TopicDistributionAllTopics(d) ==
    LET known == <<"AI", "Funding", "Product", "Regulation", "Other">>
        total == Len(d)
        CountOf(t) == Cardinality({i \in 1..Len(d) : d[i].topic = t})
    IN  [i \in 1..Len(known) |->
            [topic |-> known[i], count |-> CountOf(known[i]),
             percentage |-> IF CountOf(known[i]) = 0 THEN 0
                            ELSE Percentage(CountOf(known[i]), total),
             color |-> TopicColor(known[i])]]

\* dashboard.tsx:80-91
TopicDistributionOf(d) ==
    LET topicCounts == CountKeys([i \in 1..Len(d) |-> d[i].topic], 1, <<>>)
        total == Len(d)
        entries == ObjectEntries(topicCounts)
    IN  [i \in 1..Len(entries) |->
            [topic |-> entries[i].key,
             count |-> entries[i].count,
             \* Math.round((count / total) * 100); a string count that is
             \* no numeral divides to NaN
             percentage |-> IF entries[i].count = StringValue THEN NaN
                            ELSE Percentage(entries[i].count, total),
             color |-> TopicColor(entries[i].key)]]

\* The runtime's default locale is one of these.
Locales == {"en-US", "en-GB"}

\* two digits, zero-padded
Pad2(n) == IF n < 10 THEN "0" \o ToString(n) ELSE ToString(n)

\* new Date(published_date).toLocaleDateString() in the default locale:
\* en-US "m/d/yyyy", en-GB "dd/mm/yyyy"
ToLocaleDateString(pd, loc) ==
    IF loc = "en-GB"
    THEN Pad2(pd.d) \o "/" \o Pad2(pd.m) \o "/" \o ToString(pd.y)
    ELSE ToString(pd.m) \o "/" \o ToString(pd.d) \o "/" \o ToString(pd.y)

RECURSIVE ParseInt(_)
ParseInt(ds) ==
    IF ds = "" THEN 0
    ELSE 10 * ParseInt(SubSeq(ds, 1, Len(ds) - 1)) + DigitVal(CharAt(ds, Len(ds)))

\* days since 1970-01-01 of the civil date y-m-d
DayNumber(y, m, d) ==
    LET y2 == IF m <= 2 THEN y - 1 ELSE y
        era == y2 \div 400
        yoe == y2 - era * 400
        mp == (m + 9) % 12
        doy == (153 * mp + 2) \div 5 + d - 1
        doe == yoe * 365 + yoe \div 4 - yoe \div 100 + doy
    IN  era * 146097 + doe - 719468

\* new Date("a/b/yyyy") reads a as the month and b as the day whatever the
\* locale that wrote the string; it is an Invalid Date (getTime() is NaN)
\* unless 1 <= a <= 12 and 1 <= b <= 31
InvalidDateKey(key) ==
    LET parts == SplitOn(key, "/", 1) IN
    \/ ParseInt(parts[1]) \notin 1..12
    \/ ParseInt(parts[2]) \notin 1..31

\* new Date("a/b/yyyy").getTime(), in days: local midnight of day b of month a
DateKeyTime(key) ==
    LET parts == SplitOn(key, "/", 1) IN
    DayNumber(ParseInt(parts[3]), ParseInt(parts[1]), ParseInt(parts[2]))

\* arr.slice(-n)
SliceLast(xs, n) == SubSeq(xs, IF Len(xs) > n THEN Len(xs) - n + 1 ELSE 1, Len(xs))

\* arr.slice(0, n)
SliceFirst(xs, n) == SubSeq(xs, 1, IF Len(xs) > n THEN n ELSE Len(xs))

\* dashboard.tsx:96-105: the values articlesByDate can get
ArticlesByDateOf(d, loc) ==
    LET dateGroups ==
            CountKeys([i \in 1..Len(d) |->
                          ToLocaleDateString(d[i].published_date, loc)],
                      1, <<>>)
        entries == ObjectEntries(dateGroups)
        mapped == [i \in 1..Len(entries) |->
                      [date |-> entries[i].key, count |-> entries[i].count]]
        \* (a, b) => new Date(a.date).getTime() - new Date(b.date).getTime()
        times == [i \in 1..Len(mapped) |-> DateKeyTime(mapped[i].date)]
        invalid == [i \in 1..Len(mapped) |-> InvalidDateKey(mapped[i].date)]
    IN  {SliceLast(sorted, 7) : sorted \in SortOutcomes(mapped, times, invalid)}

WordCharString == "abcdefghijklmnopqrstuvwxyzABCDEFGHIJKLMNOPQRSTUVWXYZ0123456789_"

\* \w of the regular expression
WordChars == {CharAt(WordCharString, i) : i \in 1..Len(WordCharString)}

\* s.split(/\W+/), the pieces from position i on: a piece ends at the next
\* non-word character, and the whole run of non-word characters separates it
\* from the next piece (so a leading or trailing run yields an empty piece)
RECURSIVE SplitNonWord(_, _)
SplitNonWord(s, i) ==
    LET seps == {p \in i..Len(s) : CharAt(s, p) \notin WordChars} IN
    IF seps = {} THEN <<SubSeq(s, i, Len(s))>>
    ELSE LET p0 == CHOOSE p \in seps : \A q \in seps : p <= q
             words == {p \in p0..Len(s) : CharAt(s, p) \in WordChars}
             next == IF words = {} THEN Len(s) + 1
                     ELSE CHOOSE p \in words : \A q \in words : p <= q
         IN  <<SubSeq(s, i, p0 - 1)>> \o SplitNonWord(s, next)

stopwords ==
    {"the", "a", "an", "and", "or", "but", "in", "on", "at", "to", "for", "of",
     "with", "by", "from", "up", "about", "into", "through", "during", "before",
     "after", "above", "below", "between", "among", "is", "are", "was", "were",
     "be", "been", "being", "have", "has", "had", "do", "does", "did", "will",
     "would", "could", "should", "may", "might", "must", "can", "cant", "wont",
     "dont", "doesnt", "didnt", "isnt", "arent", "wasnt", "werent", "hasnt",
     "havent", "hadnt", "wouldnt", "couldnt", "shouldnt", "mightnt", "mustnt"}

\* A plausible slip: length >= 2 in place of length > 2.
KeepWordFromTwo(word) == Len(word) >= 2 /\ word \notin stopwords

\* the filter predicate: word.length > 2 && !stopwords.has(word)
KeepWord(word) == Len(word) > 2 /\ word \notin stopwords

\* data.flatMap(article => article.title.toLowerCase().split(/\W+/)), from row i on
RECURSIVE TitleTokens(_, _)
TitleTokens(d, i) ==
    IF i > Len(d) THEN <<>>
    ELSE SplitNonWord(toLowerCase(d[i].title), 1) \o TitleTokens(d, i + 1)

\* dashboard.tsx:112-124: the values wordFrequency can get
WordFrequencyOf(d) ==
    LET words == SelectSeq(TitleTokens(d, 1), KeepWord)
        wordCounts == CountKeys(words, 1, <<>>)
        entries == ObjectEntries(wordCounts)
        mapped == [i \in 1..Len(entries) |->
                      [word |-> entries[i].key, count |-> entries[i].count]]
        \* (a, b) => b.count - a.count
        negCounts == [i \in 1..Len(mapped) |-> 0 - mapped[i].count]
        \* a string count that is no numeral subtracts to NaN
        strings == [i \in 1..Len(mapped) |-> mapped[i].count = StringValue]
    IN  {SliceFirst(sorted, 5) : sorted \in SortOutcomes(mapped, negCounts, strings)}

\* dashboard.tsx:129
RecentArticlesOf(d) == SliceFirst(d, 5)

----------------------------------------------------------------------------
(* Aggregation inputs *)

\* Generated collections have at most MaxArticles rows of the vocabulary.
MaxArticles == 3

\* Two-topic collections have at most MaxBulk rows.
MaxBulk == 40

ArticleVocabulary ==
    <<NewsArticle("AI raises funding for AI", "AI", 2024, 1, 5),
      NewsArticle("AI product launch", "Product", 2024, 1, 6),
      NewsArticle("The 2024 launch: Apple's update", "Product", 2023, 12, 31),
      NewsArticle("Senate passes chip policy", "Regulation", 2024, 1, 5),
      NewsArticle("Local team wins 2024 cup, 100 fans", "Sports", 2024, 2, 29)>>

GeneratedCollections ==
    {[i \in 1..Len(ix) |-> ArticleVocabulary[ix[i]]] :
        ix \in SeqsUpTo(1..Len(ArticleVocabulary), MaxArticles)}

\* t rows, the first c with topic AI and the others with topic Funding
TwoTopics(c, t) ==
    [i \in 1..t |->
        IF i <= c THEN NewsArticle("AI news", "AI", 2024, 1, 5)
        ELSE NewsArticle("Funding round", "Funding", 2024, 1, 6)]

BulkCollections == {TwoTopics(c, t) : c \in 0..MaxBulk, t \in 1..MaxBulk} \ {<<>>}

\* 10 rows with topics AI:4, Product:3, Funding:3
TenArticles ==
    [i \in 1..10 |->
        NewsArticle("Story", IF i <= 4 THEN "AI" ELSE IF i <= 7 THEN "Product" ELSE "Funding",
                    2024, 1, i)]

\* rows whose topic is a name inherited from Object.prototype
InheritedTopicCollections ==
    {<<NewsArticle("Build tools", "constructor", 2024, 1, 5)>>,
     <<NewsArticle("Build tools", "constructor", 2024, 1, 5),
       NewsArticle("AI product launch", "AI", 2024, 1, 6),
       NewsArticle("More build tools", "constructor", 2024, 1, 6)>>,
     <<NewsArticle("AI product launch", "AI", 2024, 1, 6),
       NewsArticle("Prototype shown", "__proto__", 2024, 1, 6)>>}

Collections ==
    GeneratedCollections \cup BulkCollections \cup {TenArticles}
        \cup InheritedTopicCollections

----------------------------------------------------------------------------
(* Specification SpecAnalytics: processAnalytics applied to a collection *)

InitAnalytics ==
    /\ data \in Collections
    /\ locale \in Locales
    /\ topicDistribution = <<>>
    /\ articlesByDate = <<>>
    /\ wordFrequency = <<>>
    /\ recentArticles = <<>>
    /\ analyticsDone = FALSE
    /\ IdleClassify
    /\ IdleMarkdown
    /\ IdleHandler
    /\ IdlePages

ProcessAnalytics ==
    /\ ~analyticsDone
    /\ topicDistribution' = TopicDistributionOf(data)
    /\ wordFrequency' \in WordFrequencyOf(data)
    /\ recentArticles' = RecentArticlesOf(data)
    /\ analyticsDone' = TRUE
    /\ articlesByDate' \in ArticlesByDateOf(data, locale)
    /\ UNCHANGED <<data, locale>>
    /\ UNCHANGED notAnalytics

NextAnalytics == ProcessAnalytics

SpecAnalytics == InitAnalytics /\ [][NextAnalytics]_vars

----------------------------------------------------------------------------
(* Claims about processAnalytics (under SpecAnalytics) *)

\* C6: processAnalytics on an empty collection completes and leaves an empty
\* topic distribution, time series, word-frequency list and recent feed (so
\* no percentage entry at all, in particular none from a division by zero).
C6_EmptyCollectionGivesEmptyView ==
    data = <<>> =>
        IF analyticsDone
        THEN /\ topicDistribution = <<>>
             /\ articlesByDate = <<>>
             /\ wordFrequency = <<>>
             /\ recentArticles = <<>>
        ELSE ENABLED ProcessAnalytics

\* C6 witness: processAnalytics has run on the empty collection.
C6_Witness ==
    /\ data = <<>>
    /\ analyticsDone
    /\ topicDistribution = <<>>

\* 100 * count / total rounded to the nearest integer, halves up
RoundHalfUpPercent(count, total) == (200 * count + total) \div (2 * total)

\* C7 (as claimed): for every non-empty collection each topic's percentage is
\* 100 * count / total rounded to the nearest integer (half up); 10 articles
\* with topics AI:4, Product:3, Funding:3 give 40, 30, 30.
C7_PercentageIsRoundHalfUp ==
    (analyticsDone /\ data # <<>>) =>
        /\ \A i \in 1..Len(topicDistribution) :
              topicDistribution[i].percentage =
                  RoundHalfUpPercent(topicDistribution[i].count, Len(data))
        /\ data = TenArticles =>
              [i \in 1..Len(topicDistribution) |->
                  <<topicDistribution[i].topic, topicDistribution[i].percentage>>]
                = <<(<<"AI", 40>>), (<<"Product", 30>>), (<<"Funding", 30>>)>>

\* C8 (as claimed): for the titles "AI raises funding for AI" and "AI product
\* launch" the first word-frequency entry is "ai" with count 3.
C8_TopWordIsAi ==
    (analyticsDone /\ Len(data) = 2
        /\ data[1].title = "AI raises funding for AI"
        /\ data[2].title = "AI product launch")
    => /\ wordFrequency # <<>>
       /\ wordFrequency[1] = [word |-> "ai", count |-> 3]

\* C8 (amended): for those titles the first word-frequency entry is "raises"
\* with count 1; "ai" has length 2 and is dropped by the length > 2 filter, so
\* it is no entry of the result.
C8_TopWordIsRaises ==
    (analyticsDone /\ Len(data) = 2
        /\ data[1].title = "AI raises funding for AI"
        /\ data[2].title = "AI product launch")
    => /\ wordFrequency # <<>>
       /\ wordFrequency[1] = [word |-> "raises", count |-> 1]
       /\ \A i \in 1..Len(wordFrequency) : wordFrequency[i].word # "ai"

\* C8 witness: the two titles have been aggregated.
C8_Witness ==
    /\ analyticsDone
    /\ Len(data) = 2
    /\ data[1].title = "AI raises funding for AI"
    /\ data[2].title = "AI product launch"
    /\ Len(wordFrequency) = 4

----------------------------------------------------------------------------
(* The scrape API route: handler *)

generateMockData ==
    <<Article(Str("OpenAI announces new GPT-5 model with improved reasoning capabilities"),
              Str("OpenAI"), Str("AI")),
      Article(Str("Series A funding round raises $50M for fintech startup Stripe competitor"),
              Undefined, Str("Funding")),
      Article(Str("Apple releases iOS 18 with enhanced privacy features"),
              Str("Apple"), Str("Product")),
      Article(Str("EU proposes new AI regulations for tech companies"),
              Undefined, Str("Regulation")),
      Article(Str("Tesla CEO discusses future of electric vehicle market"),
              Str("Tesla"), Str("Other"))>>

Respond(status, success, arts, err) ==
    [status |-> status, success |-> success, articles |-> arts, error |-> err]

\* index.tsx:195
MethodNotAllowed == Respond(405, FALSE, <<>>, Str("Method not allowed"))

\* index.tsx:202-205
KeyNotConfigured ==
    Respond(500, FALSE, <<>>,
            Str("FireCrawl API key not configured. Please add FIRECRAWL_API_KEY to your environment variables."))

\* A plausible slip: the catch block reporting the failure to the caller.
CatchResponseError == Respond(500, FALSE, <<>>, Str("Failed to fetch news"))

\* index.tsx:294-301: the catch block
CatchResponse == Respond(200, TRUE, generateMockData, Undefined)

\* index.tsx:289-292
SuccessResponse(arts) ==
    Respond(200, TRUE, IF Len(arts) > 0 THEN arts ELSE generateMockData, Undefined)

\* The body of the extract response (response.data), by shape:
\*   noData            response.data or response.data.data is falsy
\*   emptyData         data: []
\*   nullFirst         data: [null]                  (reading .extract throws)
\*   noExtract         data: [{}]
\*   noArticles        data: [{extract: {}}]
\*   articlesNotArray  data: [{extract: {articles: "..."}}]   (.map throws)
\*   articles          data: [{extract: {articles: [...]}}]
\* An element of the articles array is an object with the three fields
\* (each a JavaScript value), or null (reading .headline throws).
ExtractKinds ==
    {"noData", "emptyData", "nullFirst", "noExtract", "noArticles",
     "articlesNotArray", "articles"}

RawArticle(h, co, cat) ==
    [elem |-> "object", headline |-> h, company |-> co, category |-> cat]

NullElement == [elem |-> "null", headline |-> Undefined, company |-> Undefined,
                category |-> Undefined]

\* A plausible slip: the fields copied without their defaults.
MapArticleNoDefaults(a) == Article(a.headline, a.company, a.category)

\* index.tsx:254-258: one element of the map
MapArticle(a) ==
    Article(OrElse(a.headline, Str("Untitled Article")),
            OrElse(a.company, Undefined),
            OrElse(a.category, Str("Other")))

\* index.tsx:251-260: whether the statements throw a TypeError on this body
ExtractionThrows(body) ==
    \/ body.kind = "nullFirst"
    \/ body.kind = "articlesNotArray"
    \/ body.kind = "articles" /\ \E i \in 1..Len(body.articles) : body.articles[i].elem = "null"

\* index.tsx:249-260: the value of `articles` after the structured extraction
ExtractedArticles(body) ==
    IF body.kind = "articles"
    THEN [i \in 1..Len(body.articles) |-> MapArticle(body.articles[i])]
    ELSE <<>>

\* The body of the scrape response (scrapeResponse.data), by shape:
\*   noData             data or data.data is falsy
\*   noMarkdown         data.data.markdown is falsy
\*   markdownNotString  data.data.markdown is truthy but no string (.split throws)
\*   markdown           data.data.markdown is a non-empty string
ScrapeKinds == {"noData", "noMarkdown", "markdownNotString", "markdown"}

\* index.tsx:282-286: the value of `articles` after the markdown fallback
ScrapedArticles(body, arts) ==
    IF body.kind = "markdown" /\ body.markdown # ""
    THEN SliceFirst(parseHeadlinesFromMarkdown(body.markdown), 5)
    ELSE arts

----------------------------------------------------------------------------
(* Handler inputs *)

\* An extract response carries at most MaxExtracted article objects.
MaxExtracted == 2

RawArticles ==
    {RawArticle(h, co, cat) :
        h \in {Undefined, Str("Stripe raises Series B")},
        co \in {Null, Str("Stripe"), Str("Apple")},
        cat \in {Undefined, Str("AI"), Str("Sports")}}
    \cup {RawArticle(Str(""), Str(""), Str("")),
          RawArticle(Undefined, Undefined, Undefined),
          NullElement}

ExtractBodies ==
    {[kind |-> k, articles |-> <<>>] : k \in ExtractKinds \ {"articles"}}
    \cup {[kind |-> "articles", articles |-> as] : as \in SeqsUpTo(RawArticles, MaxExtracted)}

ScrapeBodies ==
    {[kind |-> k, markdown |-> ""] : k \in ScrapeKinds \ {"markdown"}}
    \cup {[kind |-> "markdown", markdown |-> md] : md \in ExampleMarkdowns}

----------------------------------------------------------------------------
(* Specification SpecHandler: one request to the scrape route *)

InitHandler ==
    /\ reqMethod \in {"POST", "GET"}
    /\ apiKeySet \in BOOLEAN
    /\ pc = "start"
    /\ extractCalls = 0
    /\ scrapeCalls = 0
    /\ extractOutcome = "none"
    /\ scrapeOutcome = "none"
    /\ articles = <<>>
    /\ extractResponse = NoBody
    /\ response = NoResponse
    /\ IdleClassify
    /\ IdleMarkdown
    /\ IdleAnalytics
    /\ IdlePages

\* index.tsx:194-196
RejectMethod ==
    /\ pc = "start"
    /\ reqMethod # "POST"
    /\ response' = MethodNotAllowed
    /\ pc' = "done"
    /\ UNCHANGED <<reqMethod, apiKeySet, extractResponse, extractCalls, scrapeCalls, extractOutcome,
                   scrapeOutcome, articles>>
    /\ UNCHANGED notHandler

\* index.tsx:199-206
RejectNoKey ==
    /\ pc = "start"
    /\ reqMethod = "POST"
    /\ ~apiKeySet
    /\ response' = KeyNotConfigured
    /\ pc' = "done"
    /\ UNCHANGED <<reqMethod, apiKeySet, extractResponse, extractCalls, scrapeCalls, extractOutcome,
                   scrapeOutcome, articles>>
    /\ UNCHANGED notHandler

\* index.tsx:209-246: the extract request is sent and awaited
CallExtract ==
    /\ pc = "start"
    /\ reqMethod = "POST"
    /\ apiKeySet
    /\ extractCalls' = extractCalls + 1
    /\ pc' = "awaitExtract"
    /\ UNCHANGED <<reqMethod, apiKeySet, extractResponse, scrapeCalls, extractOutcome, scrapeOutcome,
                   articles, response>>
    /\ UNCHANGED notHandler

\* the awaited extract call rejects: control goes to the catch block
ExtractFails ==
    /\ pc = "awaitExtract"
    /\ extractOutcome' = "threw"
    /\ response' = CatchResponse
    /\ pc' = "done"
    /\ UNCHANGED <<reqMethod, apiKeySet, extractResponse, extractCalls, scrapeCalls, scrapeOutcome,
                   articles>>
    /\ UNCHANGED notHandler

\* A plausible slip: the markdown fallback attempted whatever the structured
\* extraction produced.
ExtractReturnsAlwaysScrape ==
    /\ pc = "awaitExtract"
    /\ \E body \in ExtractBodies :
          /\ extractOutcome' = "returned"
          /\ extractResponse' = body
          /\ IF ExtractionThrows(body)
             THEN /\ response' = CatchResponse
                  /\ pc' = "done"
                  /\ UNCHANGED <<articles, scrapeCalls>>
             ELSE /\ articles' = ExtractedArticles(body)
                  /\ scrapeCalls' = scrapeCalls + 1
                  /\ pc' = "awaitScrape"
                  /\ UNCHANGED response
    /\ UNCHANGED <<reqMethod, apiKeySet, extractCalls, scrapeOutcome>>
    /\ UNCHANGED notHandler

\* the awaited extract call resolves: index.tsx:249-292 up to the next await
ExtractReturns ==
    /\ pc = "awaitExtract"
    /\ \E body \in ExtractBodies :
          /\ extractOutcome' = "returned"
          /\ extractResponse' = body
          /\ IF ExtractionThrows(body)
             THEN /\ response' = CatchResponse
                  /\ pc' = "done"
                  /\ UNCHANGED <<articles, scrapeCalls>>
             ELSE /\ articles' = ExtractedArticles(body)
                  /\ IF Len(articles') = 0
                     THEN /\ scrapeCalls' = scrapeCalls + 1
                          /\ pc' = "awaitScrape"
                          /\ UNCHANGED response
                     ELSE /\ response' = SuccessResponse(articles')
                          /\ pc' = "done"
                          /\ UNCHANGED scrapeCalls
    /\ UNCHANGED <<reqMethod, apiKeySet, extractCalls, scrapeOutcome>>
    /\ UNCHANGED notHandler

\* the awaited scrape call rejects: control goes to the catch block
ScrapeFails ==
    /\ pc = "awaitScrape"
    /\ scrapeOutcome' = "threw"
    /\ response' = CatchResponse
    /\ pc' = "done"
    /\ UNCHANGED <<reqMethod, apiKeySet, extractResponse, extractCalls, scrapeCalls, extractOutcome,
                   articles>>
    /\ UNCHANGED notHandler

\* the awaited scrape call resolves: index.tsx:281-292
ScrapeReturns ==
    /\ pc = "awaitScrape"
    /\ \E body \in ScrapeBodies :
          /\ scrapeOutcome' = "returned"
          /\ IF body.kind = "markdownNotString"
             THEN /\ response' = CatchResponse
                  /\ UNCHANGED articles
             ELSE /\ articles' = ScrapedArticles(body, articles)
                  /\ response' = SuccessResponse(articles')
    /\ pc' = "done"
    /\ UNCHANGED <<reqMethod, apiKeySet, extractResponse, extractCalls, scrapeCalls, extractOutcome>>
    /\ UNCHANGED notHandler

NextHandler ==
    \/ RejectMethod
    \/ RejectNoKey
    \/ CallExtract
    \/ ExtractFails
    \/ ExtractReturns
    \/ ScrapeFails
    \/ ScrapeReturns

SpecHandler == InitHandler /\ [][NextHandler]_vars

----------------------------------------------------------------------------
(* Claims about the handler (under SpecHandler) *)

\* C9: when the request is a POST with the API key configured and either
\* FireCrawl call throws, the handler answers 200 with success = true and the
\* five sample articles; the failure is not returned as an error response.
C9_CallFailureGivesSampleData ==
    (pc = "done" /\ (extractOutcome = "threw" \/ scrapeOutcome = "threw"))
        => /\ response.status = 200
           /\ response.success = TRUE
           /\ response.error = Undefined
           /\ Len(response.articles) = 5
           /\ \A i \in 1..5 :
                response.articles[i].headline.val \in MockHeadlines

\* C9 witness: the extract call returned nothing usable and the scrape call threw.
C9_Witness ==
    /\ pc = "done"
    /\ extractOutcome = "returned"
    /\ scrapeOutcome = "threw"
    /\ response.status = 200

\* C9 witness (first call): the extract call threw.
C9_WitnessExtract ==
    /\ pc = "done"
    /\ extractOutcome = "threw"
    /\ response.success

\* an article's category is one of the five, and its company is absent or listed
WellFormedArticle(a) ==
    /\ a.category.type = "string" /\ a.category.val \in Categories
    /\ \/ a.company = Undefined
       \/ a.company.type = "string" /\ a.company.val \in KnownCompanies

\* C10 (as claimed): every article of every success response, whichever path
\* produced it and whatever the external API returned, has a category among
\* AI, Funding, Product, Regulation, Other and a company that is absent or a
\* member of the known-company list.
C10_ResponseArticlesWellFormed ==
    response.success =>
        \A i \in 1..Len(response.articles) : WellFormedArticle(response.articles[i])

\* ---------------------------------------------------------------------------
\* Every listed keyword as a headline of its own
\* ---------------------------------------------------------------------------

\* the keyword groups one keyword is listed in
GroupsListing(k) == {g \in 1..4 : k \in SeqRange(KeywordGroups[g])}

AllKeywords == UNION {SeqRange(KeywordGroups[g]) : g \in 1..4}

\* C19: for each of the 20 listed keywords, a headline consisting of that
\* keyword alone is classified into the keyword's own group's category.
C19_KeywordAloneGivesOwnCategory ==
    (category # NotRun /\ headline \in AllKeywords)
        => \A g \in GroupsListing(headline) : category = Str(GroupCategory[g])

----------------------------------------------------------------------------
(* The order of the fallback steps (under SpecHandler) *)

\* the handler answered with the fixed sample data
SampleDataReturned ==
    pc = "done" /\ response.status = 200 /\ response.articles = generateMockData

\* a FireCrawl call rejected
SomeCallFailed == extractOutcome = "threw" \/ scrapeOutcome = "threw"

\* each call is made at most once, the extract call before the scrape call
CallsAtMostOnce ==
    /\ extractCalls <= 1
    /\ scrapeCalls <= 1
    /\ scrapeCalls <= extractCalls

\* the step that sends the scrape request is taken right after the extract
\* call returned without error and left `articles` empty
ScrapeOnlyAfterEmptyExtract ==
    (scrapeCalls' # scrapeCalls)
        => /\ pc = "awaitExtract"
           /\ extractCalls = 1
           /\ extractOutcome' = "returned"
           /\ articles' = <<>>
           /\ scrapeCalls' = 1

\* the step in which the extract call yields at least one article ends the
\* request with those articles, and no scrape request is sent
ExtractedArticlesReturned ==
    (pc = "awaitExtract" /\ extractOutcome' = "returned" /\ Len(articles') > 0)
        => /\ pc' = "done"
           /\ scrapeCalls' = 0
           /\ response'.status = 200
           /\ response'.articles = articles'

\* C16: within one POST request the extract call is made first and at most
\* once; the scrape call is made at most once and only after the extract call
\* returned without error and yielded zero articles; the sample data is
\* returned only when neither call produced an article or a call failed; when
\* the extract call yields an article, no scrape call is made and those
\* articles are returned.
C16_FallbackOrder ==
    /\ [](CallsAtMostOnce)
    /\ [](SampleDataReturned => (SomeCallFailed \/ articles = <<>>))
    /\ [](scrapeCalls = 1 => (extractOutcome = "returned" /\ extractResponse # NoBody))
    /\ [][ScrapeOnlyAfterEmptyExtract]_vars
    /\ [][ExtractedArticlesReturned]_vars

\* C16 witness: the scrape call was made after an extract call that returned
\* no article, produced articles of its own, and they were returned.
C16_Witness ==
    /\ pc = "done"
    /\ extractCalls = 1
    /\ scrapeCalls = 1
    /\ extractOutcome = "returned"
    /\ scrapeOutcome = "returned"
    /\ Len(articles) > 0
    /\ response.articles = articles

\* C16 witness, second case: the extract call yielded articles and no scrape
\* call was made.
C16_WitnessExtractOnly ==
    /\ pc = "done"
    /\ extractOutcome = "returned"
    /\ Len(articles) > 0
    /\ scrapeCalls = 0

----------------------------------------------------------------------------
(* Defaults of the structured extraction (under SpecHandler) *)

\* the extract response carried a non-empty array of article objects
StructuredArticlesReceived ==
    /\ extractResponse.kind = "articles"
    /\ Len(extractResponse.articles) > 0
    /\ \A i \in 1..Len(extractResponse.articles) :
          extractResponse.articles[i].elem = "object"

\* the article returned for one article object of the payload
DefaultedFrom(raw, art) ==
    /\ Truthy(raw.headline) => art.headline = raw.headline
    /\ ~Truthy(raw.headline) => art.headline = Str("Untitled Article")
    /\ Truthy(raw.company) => art.company = raw.company
    /\ ~Truthy(raw.company) => art.company = Undefined
    /\ Truthy(raw.category) => art.category = raw.category
    /\ ~Truthy(raw.category) => art.category = Str("Other")
    /\ Truthy(art.headline)
    /\ Truthy(art.category)

\* C17: for every article object of a structured extraction payload, missing
\* or empty fields are defaulted and the article is neither dropped nor the
\* request failed: a missing category becomes Other, a missing company
\* becomes absent, a missing headline becomes a non-empty placeholder; every
\* returned article has a non-empty headline and a category.
C17_MissingFieldsDefaulted ==
    (pc = "done" /\ StructuredArticlesReceived)
        => /\ response.status = 200
           /\ response.success
           /\ Len(response.articles) = Len(extractResponse.articles)
           /\ \A i \in 1..Len(response.articles) :
                 DefaultedFrom(extractResponse.articles[i], response.articles[i])

\* C17 witness: a payload article without headline, company and category was
\* returned together with a complete one.
C17_Witness ==
    /\ pc = "done"
    /\ StructuredArticlesReceived
    /\ Len(extractResponse.articles) = 2
    /\ extractResponse.articles[1] = RawArticle(Undefined, Undefined, Undefined)
    /\ Truthy(extractResponse.articles[2].headline)
    /\ response.articles[1] = Article(Str("Untitled Article"), Undefined, Str("Other"))

----------------------------------------------------------------------------
(* The time series (under SpecAnalytics) *)

\* the distinct calendar dates of a collection
DatesOf(d) == {d[i].published_date : i \in 1..Len(d)}

DayOf(pd) == DayNumber(pd.y, pd.m, pd.d)

\* the 7 chronologically latest distinct dates (all when there are at most 7)
LatestDates(d) ==
    {pd \in DatesOf(d) :
        Cardinality({qd \in DatesOf(d) : DayOf(qd) > DayOf(pd)}) < 7}

ArticlesOn(d, pd) == Cardinality({i \in 1..Len(d) : d[i].published_date = pd})

\* entry e of the time series stands for the calendar date pd
EntryFor(e, pd) ==
    /\ e.date = ToLocaleDateString(pd, locale)
    /\ e.count = ArticlesOn(data, pd)

\* C13: the time series has one entry per distinct calendar date of
\* published_date, with the number of articles of that date, in strictly
\* ascending date order, restricted to the 7 latest distinct dates; it never
\* has more than 7 entries.
C13_TimeSeriesLatestSevenAscending ==
    analyticsDone
        => /\ Len(articlesByDate) <= 7
           /\ Len(articlesByDate) = Cardinality(LatestDates(data))
           /\ \A pd \in LatestDates(data) :
                 \E i \in 1..Len(articlesByDate) : EntryFor(articlesByDate[i], pd)
           /\ \A i, j \in 1..Len(articlesByDate) :
                 \A pd, qd \in LatestDates(data) :
                    (/\ EntryFor(articlesByDate[i], pd)
                     /\ EntryFor(articlesByDate[j], qd)
                     /\ DayOf(pd) < DayOf(qd)) => i < j

----------------------------------------------------------------------------
(* The word frequency (under SpecAnalytics) *)

\* the kept words of all titles, in the order they are met
KeptWords(d) == SelectSeq(TitleTokens(d, 1), KeepWord)

Occurrences(ws, w) == Cardinality({i \in 1..Len(ws) : ws[i] = w})

\* where a word is first met
FirstIndex(ws, w) == MinOf({i \in 1..Len(ws) : ws[i] = w})

\* word v comes before word w: more occurrences, or as many and met earlier
RanksBefore(ws, v, w) ==
    \/ Occurrences(ws, v) > Occurrences(ws, w)
    \/ /\ Occurrences(ws, v) = Occurrences(ws, w)
       /\ FirstIndex(ws, v) < FirstIndex(ws, w)

\* the words that make the top-5 cut
TopFiveWords(ws) ==
    {w \in SeqRange(ws) :
        Cardinality({v \in SeqRange(ws) : RanksBefore(ws, v, w)}) < 5}

\* C14: the word-frequency result holds at most 5 entries, each a lowercased
\* title token of length > 2 that is no stopword with its number of
\* occurrences over all titles, in non-increasing count order; among words
\* with equal counts the one met first in the titles comes first, both in the
\* order of the entries and in which words make the top-5 cut.
C14_TopFiveFirstEncounteredOnTies ==
    analyticsDone
        => LET ws == KeptWords(data) IN
           /\ Len(wordFrequency) <= 5
           /\ {wordFrequency[i].word : i \in 1..Len(wordFrequency)} = TopFiveWords(ws)
           /\ Len(wordFrequency) = Cardinality(TopFiveWords(ws))
           /\ \A i \in 1..Len(wordFrequency) :
                 wordFrequency[i].count = Occurrences(ws, wordFrequency[i].word)
           /\ \A i, j \in 1..Len(wordFrequency) :
                 i < j => RanksBefore(ws, wordFrequency[i].word, wordFrequency[j].word)

----------------------------------------------------------------------------
(* The topic distribution (under SpecAnalytics) *)

TopicsOf(d) == {d[i].topic : i \in 1..Len(d)}

ArticlesWithTopic(d, t) == Cardinality({i \in 1..Len(d) : d[i].topic = t})

KnownTopics == {"AI", "Funding", "Product", "Regulation", "Other"}

\* the sum of the count fields of the first n entries
RECURSIVE SumCounts(_, _)
SumCounts(entries, n) ==
    IF n = 0 THEN 0 ELSE SumCounts(entries, n - 1) + entries[n].count

\* C15: the topic distribution has exactly one entry per distinct topic value
\* present, the entry counts sum to the total number of articles, and an
\* entry whose topic is not one of AI, Funding, Product, Regulation, Other
\* keeps its own topic label and count but receives the colour of Other.
C15_OneEntryPerTopicUnknownAsOther ==
    analyticsDone
        => /\ {topicDistribution[i].topic : i \in 1..Len(topicDistribution)}
                 = TopicsOf(data)
           /\ Len(topicDistribution) = Cardinality(TopicsOf(data))
           /\ SumCounts(topicDistribution, Len(topicDistribution)) = Len(data)
           /\ \A i \in 1..Len(topicDistribution) :
                 topicDistribution[i].topic \notin KnownTopics
                    => /\ topicDistribution[i].count
                             = ArticlesWithTopic(data, topicDistribution[i].topic)
                       /\ topicDistribution[i].color = topicColors.Other

----------------------------------------------------------------------------
(* The two pages: NewsMonitor (index.tsx:6-173) and Dashboard              *)
(* (dashboard.tsx:35-347).  A step is what runs without interruption: an   *)
(* event handler up to its await, or the continuation after it.            *)

\* Each page starts at most this many fetches.
MaxFetches == 3

\* what POST /api/scrape can give the page.  resolved: axios resolves (status
\* 2xx) or rejects; the body fields are those of ScrapeResponse, error being
\* err.response?.data?.error for a rejection.
Reply(resolved, success, hasArticles, arts, err) ==
    [resolved |-> resolved, success |-> success, hasArticles |-> hasArticles,
     articles |-> arts, error |-> err]

ReplyArticles ==
    {generateMockData,
     <<Article(Str("Stripe raises Series B"), Str("Stripe"), Str("Funding"))>>,
     <<>>}

MonitorReplies ==
    {Reply(TRUE, TRUE, TRUE, arts, Undefined) : arts \in ReplyArticles}
    \cup {Reply(TRUE, TRUE, FALSE, <<>>, Undefined)}
    \cup {Reply(TRUE, FALSE, FALSE, <<>>, err) :
            err \in {Undefined, Str("Upstream unavailable")}}
    \cup {Reply(FALSE, FALSE, FALSE, <<>>, err) :
            err \in {Undefined, KeyNotConfigured.error}}

\* index.tsx:18: response.data.success && response.data.articles
ReplySucceeds(r) == r.resolved /\ r.success /\ r.hasArticles

\* index.tsx:21 and 24: the message given to setError
ReplyError(r) ==
    IF r.resolved THEN OrElse(r.error, Str("Failed to fetch news"))
    ELSE OrElse(r.error, Str("An error occurred while fetching news"))

\* A plausible slip: the button never disabled.
FetchButtonAlwaysEnabled == TRUE

\* index.tsx:69-72: the button is disabled while loading
FetchButtonEnabled == ~monitorLoading

\* index.tsx:11-16: a click on Fetch Latest News, up to the await
ClickFetch ==
    /\ FetchButtonEnabled
    /\ monitorFetches < MaxFetches
    /\ monitorLoading' = TRUE
    /\ monitorError' = Null
    /\ monitorInFlight' = monitorInFlight + 1
    /\ monitorFetches' = monitorFetches + 1
    /\ UNCHANGED <<monitorArticles, monitorLastOk, monitorLastFailed>>
    /\ UNCHANGED <<dashboardVars, analyticsVars, notPages>>

\* A plausible slip: the list emptied when a fetch fails.
FetchFailsClearingArticles ==
    /\ monitorInFlight > 0
    /\ \E r \in MonitorReplies :
          /\ ~ReplySucceeds(r)
          /\ monitorError' = ReplyError(r)
    /\ monitorArticles' = <<>>
    /\ monitorLoading' = FALSE
    /\ monitorInFlight' = monitorInFlight - 1
    /\ monitorLastFailed' = TRUE
    /\ UNCHANGED <<monitorFetches, monitorLastOk>>
    /\ UNCHANGED <<dashboardVars, analyticsVars, notPages>>

\* index.tsx:16-19 and 25-27: the request settles with success and articles
FetchSucceeds ==
    /\ monitorInFlight > 0
    /\ \E r \in MonitorReplies :
          /\ ReplySucceeds(r)
          /\ monitorArticles' = r.articles
          /\ monitorLastOk' = r.articles
    /\ monitorLoading' = FALSE
    /\ monitorInFlight' = monitorInFlight - 1
    /\ monitorLastFailed' = FALSE
    /\ UNCHANGED <<monitorError, monitorFetches>>
    /\ UNCHANGED <<dashboardVars, analyticsVars, notPages>>

\* index.tsx:20-27: the request settles without success, or rejects
FetchFails ==
    /\ monitorInFlight > 0
    /\ \E r \in MonitorReplies :
          /\ ~ReplySucceeds(r)
          /\ monitorError' = ReplyError(r)
    /\ monitorLoading' = FALSE
    /\ monitorInFlight' = monitorInFlight - 1
    /\ monitorLastFailed' = TRUE
    /\ UNCHANGED <<monitorArticles, monitorFetches, monitorLastOk>>
    /\ UNCHANGED <<dashboardVars, analyticsVars, notPages>>

\* the rows a storage read can return
DashboardCollections ==
    {<<>>,
     <<ArticleVocabulary[1], ArticleVocabulary[3]>>,
     <<ArticleVocabulary[2]>>}

\* err.message of a failed read; the client reports the body of an error
\* response that is no JSON as the message, which may be empty
ReadErrorMessages == {Str("permission denied for table news_articles"), Str("")}

\* dashboard.tsx:140-150: the error panel with Retry is what is rendered
RetryRendered == ~dashLoading /\ Truthy(dashError)

\* dashboard.tsx:159-346: the dashboard with Refresh Data is what is rendered
RefreshRendered == ~dashLoading /\ ~Truthy(dashError)

\* dashboard.tsx:57-63: fetchDashboardData up to its await
StartRead(trigger) ==
    /\ dashLoading' = TRUE
    /\ dashInFlight' = dashInFlight + 1
    /\ dashReads' = dashReads + 1
    /\ dashTrigger' = trigger
    /\ UNCHANGED <<dashArticles, dashError, dashLastRead>>
    /\ UNCHANGED <<monitorVars, analyticsVars, notPages>>

\* dashboard.tsx:53-55: the mount effect
Mount ==
    /\ ~dashMounted
    /\ dashMounted' = TRUE
    /\ StartRead("mount")

\* dashboard.tsx:147-152: a click on Retry
ClickRetry ==
    /\ RetryRendered
    /\ dashReads < MaxFetches
    /\ UNCHANGED dashMounted
    /\ StartRead("retry")

\* dashboard.tsx:337-342: a click on Refresh Data
ClickRefresh ==
    /\ RefreshRendered
    /\ dashReads < MaxFetches
    /\ UNCHANGED dashMounted
    /\ StartRead("refresh")

\* dashboard.tsx:67-69 and 73-75: the read returns rows
ReadSucceeds ==
    /\ dashInFlight > 0
    /\ \E rows \in DashboardCollections :
          /\ dashArticles' = rows
          /\ data' = rows
          /\ topicDistribution' = TopicDistributionOf(rows)
          /\ wordFrequency' \in WordFrequencyOf(rows)
          /\ recentArticles' = RecentArticlesOf(rows)
          /\ analyticsDone' = TRUE
          /\ articlesByDate' \in ArticlesByDateOf(rows, locale)
    /\ dashError' = Null
    /\ dashLoading' = FALSE
    /\ dashInFlight' = dashInFlight - 1
    /\ dashLastRead' = "ok"
    /\ UNCHANGED <<dashMounted, dashReads, dashTrigger, locale>>
    /\ UNCHANGED <<monitorVars, notPages>>

\* A plausible slip: a failed read started again from the catch block.
ReadFailsAutoRetry ==
    /\ dashInFlight > 0
    /\ dashReads < MaxFetches
    /\ \E msg \in ReadErrorMessages : dashError' = msg
    /\ dashLoading' = TRUE
    /\ dashReads' = dashReads + 1
    /\ dashTrigger' = "catch"
    /\ dashLastRead' = "failed"
    /\ UNCHANGED <<dashMounted, dashArticles, dashInFlight>>
    /\ UNCHANGED <<monitorVars, analyticsVars, notPages>>

\* dashboard.tsx:65 and 70-75: the read returns an error
ReadFails ==
    /\ dashInFlight > 0
    /\ \E msg \in ReadErrorMessages : dashError' = msg
    /\ dashLoading' = FALSE
    /\ dashInFlight' = dashInFlight - 1
    /\ dashLastRead' = "failed"
    /\ UNCHANGED <<dashMounted, dashArticles, dashReads, dashTrigger>>
    /\ UNCHANGED <<monitorVars, analyticsVars, notPages>>

InitPages ==
    /\ IdleMonitor
    /\ IdleDashboard
    /\ locale \in Locales
    /\ data = <<>>
    /\ topicDistribution = <<>>
    /\ articlesByDate = <<>>
    /\ wordFrequency = <<>>
    /\ recentArticles = <<>>
    /\ analyticsDone = FALSE
    /\ IdleClassify
    /\ IdleMarkdown
    /\ IdleHandler

NextPages ==
    \/ ClickFetch
    \/ FetchSucceeds
    \/ FetchFails
    \/ Mount
    \/ ClickRetry
    \/ ClickRefresh
    \/ ReadSucceeds
    \/ ReadFails

SpecPages == InitPages /\ [][NextPages]_vars

----------------------------------------------------------------------------
(* Claims about the pages (under SpecPages) *)

\* the storage reads that have settled
SettledReads == dashReads - dashInFlight

\* the latest storage read failed and none is in flight
ReadFailedAndSettled == dashLastRead = "failed" /\ dashInFlight = 0

\* the step in which a read settles as failed leaves the page not loading,
\* with an error, and starts no read
FailureEndsInErrorState ==
    (SettledReads' = SettledReads + 1 /\ dashLastRead' = "failed")
        => /\ ~dashLoading'
           /\ dashError' # Null
           /\ dashInFlight' = 0
           /\ dashReads' = dashReads

\* after a failed read the dashboard only changes by a click on one of its
\* buttons, which starts the next read
OnlyManualReadAfterFailure ==
    (ReadFailedAndSettled /\ dashboardVars' # dashboardVars)
        => /\ dashReads' = dashReads + 1
           /\ dashInFlight' = 1
           /\ dashTrigger' \in {"retry", "refresh"}

\* the step in which a read settles as successful sets error to null
SuccessResetsError ==
    (SettledReads' = SettledReads + 1 /\ dashLastRead' = "ok") => dashError' = Null

\* C11: whenever a storage read fails the dashboard ends with loading = false
\* and a non-null error, and no storage read is started until the user
\* starts one with a button; the failure is never retried automatically, and
\* a later successful read resets error to null.
C11_FailedReadWaitsForManualRetry ==
    /\ [](ReadFailedAndSettled => (~dashLoading /\ dashError # Null))
    /\ [][FailureEndsInErrorState]_vars
    /\ [][OnlyManualReadAfterFailure]_vars
    /\ [][SuccessResetsError]_vars

\* C11 witness: the mount read failed and the page waits with its error.
C11_Witness ==
    /\ dashReads = 1
    /\ ReadFailedAndSettled
    /\ ~dashLoading
    /\ Truthy(dashError)

\* C11 witness, second case: a Retry after a failure succeeded.
C11_WitnessRetrySucceeded ==
    /\ dashReads = 2
    /\ dashTrigger = "retry"
    /\ dashLastRead = "ok"
    /\ dashInFlight = 0
    /\ dashError = Null


\* each page has at most one request in flight, and only while it is loading
AtMostOneInFlight ==
    /\ monitorInFlight <= 1
    /\ dashInFlight <= 1
    /\ monitorInFlight = 1 => monitorLoading
    /\ dashInFlight = 1 => dashLoading

\* a step that starts a request on the monitor page is taken with loading = false
MonitorStartsWhileNotLoading ==
    monitorInFlight' > monitorInFlight => ~monitorLoading

\* a step that starts a storage read on the dashboard is taken with loading = false
DashboardStartsWhileNotLoading ==
    dashInFlight' > dashInFlight => ~dashLoading

\* a click that starts a storage read on the dashboard is made with loading = false
DashboardClickStartsWhileNotLoading ==
    (dashInFlight' > dashInFlight /\ dashTrigger' # "mount") => ~dashLoading

\* C12 as stated: each page has at most one request in flight, and on either
\* page a fetch is started only while loading = false.
C12_FetchStartsOnlyWhileNotLoading ==
    /\ [](AtMostOneInFlight)
    /\ [][MonitorStartsWhileNotLoading]_vars
    /\ [][DashboardStartsWhileNotLoading]_vars

\* C12, amended: each page has at most one request in flight; a button starts
\* a fetch only while loading = false; the dashboard's first read is started
\* by the mount effect while loading holds its initial value true, and it is
\* the only read started while loading = true.
C12_ButtonsStartOnlyWhileNotLoading ==
    /\ [](AtMostOneInFlight)
    /\ [][MonitorStartsWhileNotLoading]_vars
    /\ [][DashboardClickStartsWhileNotLoading]_vars
    /\ [][(dashInFlight' > dashInFlight /\ dashTrigger' = "mount")
            => (dashLoading /\ dashReads = 0 /\ dashInFlight = 0)]_vars

\* C12 witness: both pages have a request in flight, each started by a button
\* after an earlier request had settled.
C12_Witness ==
    /\ monitorInFlight = 1
    /\ monitorFetches = 2
    /\ dashInFlight = 1
    /\ dashTrigger = "refresh"
    /\ monitorLoading
    /\ dashLoading

\* all the articles are those of the latest successful fetch and, with no
\* fetch in flight, loading is false and error tells whether the latest fetch failed
MonitorShowsLatestSuccess ==
    /\ monitorArticles = monitorLastOk
    /\ monitorInFlight = 0
          => /\ ~monitorLoading
             /\ (monitorError # Null) <=> monitorLastFailed

\* the step in which a fetch settles as failed keeps the articles
FailedFetchKeepsArticles ==
    (monitorInFlight' < monitorInFlight /\ monitorLastFailed')
        => monitorArticles' = monitorArticles

\* C18: on the monitor page the displayed articles are those of the most
\* recent successful fetch (empty if none succeeded), a failed fetch leaves
\* them unchanged, and once no fetch is in flight loading is false and error
\* is non-null exactly when the most recently completed fetch failed.
C18_ArticlesOfLatestSuccessfulFetch ==
    /\ [](MonitorShowsLatestSuccess)
    /\ [][FailedFetchKeepsArticles]_vars

\* C18 witness: a fetch succeeded with the sample articles, a later one
\* failed, and the sample articles are still shown next to the error.
C18_Witness ==
    /\ monitorFetches = 2
    /\ monitorInFlight = 0
    /\ monitorLastFailed
    /\ monitorArticles = generateMockData
    /\ Truthy(monitorError)
    /\ ~monitorLoading

====
